---- MODULE Spec2Model ----
(***************************************************************************)
(* A model of the smtlib-rs Solver / Driver stack.                         *)
(*                                                                         *)
(*   lowlevel/src/lib.rs   Driver::new, Driver::exec, Term::all_consts     *)
(*   smtlib/src/solver.rs  Solver::{new, set_logic, set_field_order,       *)
(*                         assert, check_sat, check_sat_with_model,        *)
(*                         get_model}                                      *)
(*   smtlib/src/terms.rs   fun, qual_ident, Sort::from_name                *)
(*                                                                         *)
(* One Solver session is modelled.  Every Solver operation is one action:  *)
(* it performs all the Driver::exec calls the operation makes, each with a *)
(* backend outcome chosen nondeterministically, and records in `execs`     *)
(* what was exchanged with the backend and in `ret` what the caller gets   *)
(* (a value, an error, or a panic).  The caller then takes the result      *)
(* (action Return) and may call the next operation.                        *)
(*                                                                         *)
(* AST values are records that carry only the fields their variant has.    *)
(*                                                                         *)
(* The parts of the library that are not a Solver session have their own   *)
(* specifications over their own variables (LabelSpec: Label::generate     *)
(* called from several threads; TermSpec: the builders of the typed term   *)
(* layer; AsyncSpec: a Driver and an AsyncDriver side by side; CallSpec:   *)
(* functions of terms and literals called on their own); a session leaves  *)
(* those variables alone.                                                  *)
(***************************************************************************)
EXTENDS Integers, Sequences, FiniteSets, TLC

VARIABLES
    phase,      \* "start" (no Solver yet), "ready", "dead" (construction failed or a panic unwound)
    decls,      \* Solver.decls : HashMap<Identifier, ast::Sort>
    op,         \* the operation that just ran and its argument, until its caller takes the result
    execs,      \* the Driver::exec calls that operation made, in order
    ret,        \* what that operation gives its caller
    declSent,   \* per symbol, how many declare-const commands the backend was sent in this session
    firstCmd,   \* the first command the backend received in this session
    NAMED_LABEL_COUNT,  \* the static AtomicU64 of Label::generate
    labelThreads,       \* per thread: where it is in Label::labeled and the labels it got
    built,              \* the value the typed term layer built last, with its Rust type
    driver,             \* a Driver: whether it was constructed, and its execs so far
    asyncDriver,        \* an AsyncDriver given the same commands over a backend that
                        \* behaves the same: the same, and the future it is suspended in
    call                \* the function called last on its own, with its argument and
                        \* what it returned

vars == <<phase, decls, op, execs, ret, declSent, firstCmd>>

\* The state outside the Solver session.
labelVars == <<NAMED_LABEL_COUNT, labelThreads>>

termVars == <<built>>

driverVars == <<driver, asyncDriver>>

callVars == <<call>>

others == <<labelVars, termVars, driverVars, callVars>>

----------------------------------------------------------------------------
(* Bounds of the model. *)

\* How many `not` applications are wrapped around a base term.
MaxNest == 1

\* Cap of the declSent counters.
MaxDeclSent == 2

----------------------------------------------------------------------------
(* AST values: identifiers, sorts, qualified identifiers, terms. *)

Simple(sym) == [kind |-> "Simple", sym |-> sym]

Indexed(sym, idx) == [kind |-> "Indexed", sym |-> sym, idx |-> idx]

\* ast::Sort::Sort(identifier)
SortOf(ident) == [id |-> ident]

QIdentifier(ident) == [kind |-> "Identifier", id |-> ident]

QSorted(ident, sort) == [kind |-> "Sorted", id |-> ident, sort |-> sort]

\* Option::None, for the sort argument of qual_ident
None == [none |-> TRUE]

\* qual_ident(s, sort): terms.rs builds only Simple identifiers.
qual_ident(s, sort) ==
    IF sort # None THEN QSorted(Simple(s), sort) ELSE QIdentifier(Simple(s))

SpecConstant(lex) == [tag |-> "SpecConstant", lex |-> lex]

Identifier(q) == [tag |-> "Identifier", q |-> q]

Application(q, args) == [tag |-> "Application", q |-> q, args |-> args]

Let(bindings, body) == [tag |-> "Let", bindings |-> bindings, body |-> body]

Forall(svars, body) == [tag |-> "Forall", svars |-> svars, body |-> body]

Exists(svars, body) == [tag |-> "Exists", svars |-> svars, body |-> body]

Match(term, cases) == [tag |-> "Match", term |-> term, cases |-> cases]

Annotation(term, attrs) == [tag |-> "Annotation", term |-> term, attrs |-> attrs]

\* fun(name, args): an application whose head is a bare identifier.
fun(name, args) == Application(qual_ident(name, None), args)

----------------------------------------------------------------------------
(* Term::all_consts.  The HashSet it returns is modelled as a set; a todo!() *)
(* reached anywhere in the traversal panics the whole call.                  *)

RECURSIVE all_consts(_)
all_consts(t) ==
    CASE t.tag = "SpecConstant" -> [panic |-> FALSE, set |-> {}]
      [] t.tag = "Identifier"   -> [panic |-> FALSE, set |-> {t.q}]
      [] t.tag = "Application"  ->
            LET subs == {all_consts(t.args[i]) : i \in DOMAIN t.args}
            IN  IF \E s \in subs : s.panic
                THEN [panic |-> TRUE, set |-> {}]
                ELSE [panic |-> FALSE, set |-> {t.q} \cup UNION {s.set : s \in subs}]
      [] t.tag = "Let"          -> [panic |-> TRUE, set |-> {}]
      [] t.tag = "Forall"       -> [panic |-> FALSE, set |-> {}]
      [] t.tag = "Exists"       -> [panic |-> TRUE, set |-> {}]
      [] t.tag = "Match"        -> [panic |-> TRUE, set |-> {}]
      [] t.tag = "Annotation"   -> [panic |-> TRUE, set |-> {}]

----------------------------------------------------------------------------
(* Commands and their rendering to SMT-LIB text (a sequence of pieces). *)

SetOptionPrintSuccess == [name |-> "set-option", option |-> ":print-success", value |-> "true"]

SetLogicCmd(logic) == [name |-> "set-logic", logic |-> logic]

DefineSort(sym, sort) == [name |-> "define-sort", sym |-> sym, sort |-> sort]

DeclareConst(sym, sort) == [name |-> "declare-const", sym |-> sym, sort |-> sort]

AssertCmd(term) == [name |-> "assert", term |-> term]

CheckSatCmd == [name |-> "check-sat"]

GetModelCmd == [name |-> "get-model"]

RECURSIVE Concat(_)
Concat(seqs) ==
    IF seqs = <<>> THEN <<>> ELSE Head(seqs) \o Concat(Tail(seqs))

RenderIdent(i) ==
    IF i.kind = "Simple" THEN <<i.sym>>
    ELSE <<"(", "_", i.sym>> \o i.idx \o <<")">>

RenderSort(s) == RenderIdent(s.id)

RenderQual(q) ==
    IF q.kind = "Sorted"
    THEN <<"(", "as">> \o RenderIdent(q.id) \o RenderSort(q.sort) \o <<")">>
    ELSE RenderIdent(q.id)

RenderSortedVar(v) == <<"(", v.sym>> \o RenderSort(v.sort) \o <<")">>

RenderAttribute(a) == <<a.kw, a.val>>

RECURSIVE RenderTerm(_)
RenderTerm(t) ==
    CASE t.tag = "SpecConstant" -> <<t.lex>>
      [] t.tag = "Identifier"   -> RenderQual(t.q)
      [] t.tag = "Application"  ->
            <<"(">> \o RenderQual(t.q)
                    \o Concat([k \in DOMAIN t.args |-> RenderTerm(t.args[k])])
                    \o <<")">>
      [] t.tag = "Let"          ->
            <<"(", "let", "(">>
                \o Concat([k \in DOMAIN t.bindings |->
                             <<"(", t.bindings[k].sym>>
                                \o RenderTerm(t.bindings[k].term) \o <<")">>])
                \o <<")">> \o RenderTerm(t.body) \o <<")">>
      [] t.tag \in {"Forall", "Exists"} ->
            <<"(", IF t.tag = "Forall" THEN "forall" ELSE "exists", "(">>
                \o Concat([k \in DOMAIN t.svars |-> RenderSortedVar(t.svars[k])])
                \o <<")">> \o RenderTerm(t.body) \o <<")">>
      [] t.tag = "Match"        ->
            <<"(", "match">> \o RenderTerm(t.term) \o <<"(">>
                \o Concat([k \in DOMAIN t.cases |->
                             <<"(", t.cases[k].pat>>
                                \o RenderTerm(t.cases[k].term) \o <<")">>])
                \o <<")", ")">>
      [] t.tag = "Annotation"   ->
            <<"(", "!">> \o RenderTerm(t.term)
                \o Concat([k \in DOMAIN t.attrs |-> RenderAttribute(t.attrs[k])])
                \o <<")">>

RenderCmd(c) ==
    CASE c.name = "set-option"    -> <<"(", "set-option", c.option, c.value, ")">>
      [] c.name = "set-logic"     -> <<"(", "set-logic", c.logic, ")">>
      [] c.name = "define-sort"   ->
            <<"(", "define-sort", c.sym, "(", ")">> \o RenderSort(c.sort) \o <<")">>
      [] c.name = "declare-const" ->
            <<"(", "declare-const", c.sym>> \o RenderSort(c.sort) \o <<")">>
      [] c.name = "assert"        -> <<"(", "assert">> \o RenderTerm(c.term) \o <<")">>
      [] c.name = "check-sat"     -> <<"(", "check-sat", ")">>
      [] c.name = "get-model"     -> <<"(", "get-model", ")">>

----------------------------------------------------------------------------
(* The backend and the responses.  A backend call either fails (an I/O     *)
(* error) or yields one response text.                                      *)

IoFailure == "<io error>"

ErrorText == "(error \"m1\")"

ModelText == "((define-fun |a| () F #f2m5))"

Texts ==
    {"success", "unsupported", ErrorText, "sat", "unsat", "unknown", ModelText, "<garbled>"}

Outcomes == Texts \cup {IoFailure}

Success == [kind |-> "Success"]

Unsupported == [kind |-> "Unsupported"]

ErrorResp(msg) == [kind |-> "Error", msg |-> msg]

SpecificSuccessResponse(r) == [kind |-> "SpecificSuccessResponse", r |-> r]

CheckSatResponse(v) == [variant |-> "CheckSatResponse", val |-> v]

GetModelResponse(m) == [variant |-> "GetModelResponse", val |-> m]

\* The message carried by an (error "...") response text.
ErrorMessage(text) == IF text = ErrorText THEN "m1" ELSE ""

\* Command::parse_response: the response parser selected by the command's tag.
\* It returns a Result of an Option: some = FALSE is Ok(None).
parse_response(cmd, text) ==
    CASE cmd.name = "check-sat" /\ text \in {"sat", "unsat", "unknown"} ->
            [ok |-> TRUE, some |-> TRUE, r |-> CheckSatResponse(text)]
      [] cmd.name = "get-model" /\ text = ModelText ->
            [ok |-> TRUE, some |-> TRUE, r |-> GetModelResponse(text)]
      [] OTHER -> [ok |-> TRUE, some |-> FALSE]

\* GeneralResponse::parse: success, unsupported, (error ...) first, then the
\* specific grammars; anything else is a ParseError.
GeneralResponseParse(text) ==
    CASE text = "success"     -> [ok |-> TRUE, resp |-> Success]
      [] text = "unsupported" -> [ok |-> TRUE, resp |-> Unsupported]
      [] text = ErrorText     -> [ok |-> TRUE, resp |-> ErrorResp(ErrorMessage(text))]
      [] text \in {"sat", "unsat", "unknown"} ->
            [ok |-> TRUE, resp |-> SpecificSuccessResponse(CheckSatResponse(text))]
      [] text = ModelText     ->
            [ok |-> TRUE, resp |-> SpecificSuccessResponse(GetModelResponse(text))]
      [] OTHER                -> [ok |-> FALSE]

----------------------------------------------------------------------------
(* Driver::exec.  `out` is what the one backend call of this exec yields.  *)
(* The result records the command given to exec, the backend calls made    *)
(* (command passed, outcome consumed) and the Result returned.             *)

ExecOk(resp) == [ok |-> TRUE, resp |-> resp]

ExecErr(e) == [ok |-> FALSE, err |-> e]

BackendCall(cmd, out) == [cmd |-> cmd, out |-> out]

\* A variant of DriverExec that takes every response the command's own parser
\* does not recognise for `success`, without parsing it.
DriverExecNoFallback(cmd, out) ==
    [cmd   |-> cmd,
     calls |-> <<BackendCall(cmd, out)>>,
     res   |-> IF out = IoFailure THEN ExecErr("IO")
               ELSE LET specific == parse_response(cmd, out)
                    IN  IF ~specific.ok THEN ExecErr("Parse")
                        ELSE IF specific.some
                        THEN ExecOk(SpecificSuccessResponse(specific.r))
                        ELSE ExecOk(Success)]

\* A variant of DriverExec that sends the command a second time when the first
\* response cannot be parsed.
DriverExecRetry(cmd, out) ==
    LET specific == parse_response(cmd, out)
        general  == GeneralResponseParse(out)
    IN
    [cmd   |-> cmd,
     calls |-> IF out # IoFailure /\ ~specific.some /\ ~general.ok
               THEN <<BackendCall(cmd, out), BackendCall(cmd, out)>>
               ELSE <<BackendCall(cmd, out)>>,
     res   |-> IF out = IoFailure THEN ExecErr("IO")
               ELSE IF ~specific.ok THEN ExecErr("Parse")
               ELSE IF specific.some
                    THEN ExecOk(SpecificSuccessResponse(specific.r))
                    ELSE IF general.ok THEN ExecOk(general.resp)
                    ELSE ExecErr("Parse")]

\* A variant of DriverExec that calls the backend a second time when the first
\* call fails with an I/O error, and answers from the second call.
DriverExecRetryIo(cmd, out) ==
    [cmd   |-> cmd,
     calls |-> IF out = IoFailure
               THEN <<BackendCall(cmd, out), BackendCall(cmd, "success")>>
               ELSE <<BackendCall(cmd, out)>>,
     res   |-> IF out = IoFailure THEN ExecOk(Success)
               ELSE LET specific == parse_response(cmd, out)
                        general  == GeneralResponseParse(out)
                    IN  IF ~specific.ok THEN ExecErr("Parse")
                        ELSE IF specific.some
                        THEN ExecOk(SpecificSuccessResponse(specific.r))
                        ELSE IF general.ok THEN ExecOk(general.resp)
                        ELSE ExecErr("Parse")]

DriverExec(cmd, out) ==
    [cmd   |-> cmd,
     calls |-> <<BackendCall(cmd, out)>>,
     res   |-> IF out = IoFailure THEN ExecErr("IO")
               ELSE LET specific == parse_response(cmd, out)
                        general  == GeneralResponseParse(out)
                    IN  IF ~specific.ok THEN ExecErr("Parse")
                        ELSE IF specific.some
                        THEN ExecOk(SpecificSuccessResponse(specific.r))
                        ELSE IF general.ok THEN ExecOk(general.resp)
                        ELSE ExecErr("Parse")]

----------------------------------------------------------------------------
(* What a Solver operation gives its caller. *)

OkRet(v) == [kind |-> "Ok", val |-> v]

\* Error::Smt(msg, cmd.to_string())
SmtError(msg, cmd) == [kind |-> "Err", err |-> "Smt", msg |-> msg, cmd |-> RenderCmd(cmd)]

\* panic!, todo!, assert_eq!: the call unwinds instead of returning.
PanicRet(what) == [kind |-> "Panic", msg |-> what]

\* The operation has not returned (yet).
NoRet == [kind |-> "none"]

\* The `?` after driver.exec(..): an Err(IO | Parse) is returned to the caller.
Propagate(e) == [kind |-> "Err", err |-> e.res.err]

\* A variant of SetLogicResult that lets an `unsupported` answer pass.
SetLogicResultLenient(resp) ==
    CASE resp.kind \in {"Success", "Unsupported"} -> OkRet("()")
      [] resp.kind = "SpecificSuccessResponse" -> PanicRet("Failed to set logic")
      [] resp.kind = "Error" -> PanicRet("Failed to set logic - Err")

\* Solver::set_logic, the match on the response.
SetLogicResult(resp) ==
    CASE resp.kind = "Success" -> OkRet("()")
      [] resp.kind = "SpecificSuccessResponse" -> PanicRet("Failed to set logic")
      [] resp.kind = "Unsupported" -> PanicRet("Failed to set logic - Unsupported")
      [] resp.kind = "Error" -> PanicRet("Failed to set logic - Err")

\* Solver::set_field_order, the match on the response.
SetFieldOrderResult(resp) ==
    CASE resp.kind = "Success" -> OkRet("()")
      [] resp.kind = "SpecificSuccessResponse" -> PanicRet("Failed to set field order")
      [] resp.kind = "Unsupported" -> PanicRet("Failed to set logic - Unsupported")
      [] resp.kind = "Error" -> PanicRet("Failed to set logic - Err")

\* A variant of AssertResult that also takes `unsupported` for an acknowledgement.
AssertResultLenient(resp, cmd) ==
    CASE resp.kind \in {"Success", "Unsupported"} -> OkRet("()")
      [] resp.kind = "Error" -> SmtError(resp.msg, cmd)
      [] OTHER -> PanicRet("todo")

\* Solver::assert, the match on the response to (assert term).
AssertResult(resp, cmd) ==
    CASE resp.kind = "Success" -> OkRet("()")
      [] resp.kind = "Error" -> SmtError(resp.msg, cmd)
      [] OTHER -> PanicRet("todo")

\* Solver::check_sat, the match on the response.
CheckSatResult(resp, cmd) ==
    CASE resp.kind = "SpecificSuccessResponse" /\ resp.r.variant = "CheckSatResponse" ->
            OkRet(CASE resp.r.val = "sat" -> "Sat"
                    [] resp.r.val = "unsat" -> "Unsat"
                    [] resp.r.val = "unknown" -> "Unknown")
      [] resp.kind = "Error" -> SmtError(resp.msg, cmd)
      [] OTHER -> PanicRet("todo")

\* Solver::get_model, the match on the response.
GetModelResult(resp) ==
    CASE resp.kind = "SpecificSuccessResponse" /\ resp.r.variant = "GetModelResponse" ->
            OkRet("Model")
      [] OTHER -> PanicRet("todo")

----------------------------------------------------------------------------
(* The decl-map and the declaration loop of Solver::assert. *)

\* HashMap::default()
EmptyMap == [i \in {} |-> i]

\* A variant of EntryOccupied that never finds the key.
EntryNeverOccupied(d, i) == FALSE

\* decls.entry(i) is Entry::Occupied
EntryOccupied(d, i) == i \in DOMAIN d

\* Entry::Vacant(v) => v.insert(s)
VacantInsert(d, i, s) == [j \in DOMAIN d \cup {i} |-> IF j = i THEN s ELSE d[j]]

\* A variant of OccupiedCheck that stores the newly seen sort.
OccupiedOverwrite(d, i, s) ==
    [pass |-> i \in DOMAIN d /\ d[i] = s, decls |-> VacantInsert(d, i, s)]

\* Entry::Occupied(stored) => assert_eq!(s, stored.get()): the map is only read.
OccupiedCheck(d, i, s) == [pass |-> d[i] = s, decls |-> d]

\* The declare-const commands among the backend calls of one exec, for symbol sym.
DeclCalls(e, sym) ==
    Cardinality({k \in DOMAIN e.calls :
                    e.calls[k].cmd.name = "declare-const" /\ e.calls[k].cmd.sym = sym})

\* The state an operation works on and leaves: ret = NoRet while it is running.
Run(d, ex, cnt, r) == [decls |-> d, execs |-> ex, declSent |-> cnt, ret |-> r]

\* All the ways the loop `for q in term.all_consts()` can go, the set being
\* visited in the order `todo`: one result per choice of backend outcomes.
RECURSIVE DeclLoop(_, _)
DeclLoop(todo, st) ==
    IF todo = <<>> THEN {st}
    ELSE
    LET q == Head(todo) IN
    CASE q.kind = "Identifier" -> DeclLoop(Tail(todo), st)
      [] q.kind = "Sorted" /\ EntryOccupied(st.decls, q.id) ->
            LET chk == OccupiedCheck(st.decls, q.id, q.sort)
                st1 == [st EXCEPT !.decls = chk.decls]
            IN  IF chk.pass THEN DeclLoop(Tail(todo), st1)
                ELSE {[st1 EXCEPT !.ret = PanicRet("assert_eq")]}
      [] q.kind = "Sorted" /\ ~EntryOccupied(st.decls, q.id) ->
            LET st1 == [st EXCEPT !.decls = VacantInsert(@, q.id, q.sort)] IN
            IF q.id.kind = "Simple"
            THEN UNION {
                    LET e   == DriverExec(DeclareConst(q.id.sym, q.sort), o)
                        st2 == [st1 EXCEPT
                                  !.execs = Append(@, e),
                                  !.declSent = [@ EXCEPT ![q.id.sym] = @ + DeclCalls(e, q.id.sym)]]
                    IN  IF e.res.ok THEN DeclLoop(Tail(todo), st2)
                        ELSE {[st2 EXCEPT !.ret = Propagate(e)]}
                    : o \in Outcomes }
            ELSE {[st1 EXCEPT !.ret = PanicRet("todo")]}

\* The orders in which a HashSet's elements may be visited.  The loop skips
\* the bare identifiers, so only the order among the Sorted ones is drawn.
SortedOf(S) == {q \in S : q.kind = "Sorted"}

Orders(S) ==
    {f \in [1..Cardinality(S) -> S] : \A a, b \in DOMAIN f : a # b => f[a] # f[b]}

\* Solver::assert(term) from decl-map d and counters cnt: every way it can go.
AssertRuns(d, cnt, term) ==
    LET consts == all_consts(term)
        start  == Run(d, <<>>, cnt, NoRet)
        cmd    == AssertCmd(term)
    IN
    IF consts.panic THEN {[start EXCEPT !.ret = PanicRet("todo")]}
    ELSE UNION { UNION {
            IF st.ret # NoRet THEN {st}
            ELSE { LET e == DriverExec(cmd, o) IN
                   [st EXCEPT !.execs = Append(@, e),
                              !.ret = IF e.res.ok THEN AssertResult(e.res.resp, cmd)
                                      ELSE Propagate(e)]
                   : o \in Outcomes }
            : st \in DeclLoop(order, start) }
         : order \in Orders(SortedOf(consts.set)) }

----------------------------------------------------------------------------
(* The other operations: every way each can go. *)

\* Solver::set_logic(logic)
SetLogicRuns(d, cnt, logic) ==
    { LET e == DriverExec(SetLogicCmd(logic), o) IN
      Run(d, <<e>>, cnt, IF e.res.ok THEN SetLogicResult(e.res.resp) ELSE Propagate(e))
      : o \in Outcomes }

\* The sort set_field_order builds: a Simple identifier whose symbol is the
\* whole text "(_ FiniteField <prime>)".
FiniteFieldSort(prime) == SortOf(Simple("(_ FiniteField " \o ToString(prime) \o ")"))

\* Solver::set_field_order(prime)
SetFieldOrderRuns(d, cnt, prime) ==
    { LET e == DriverExec(DefineSort("F", FiniteFieldSort(prime)), o) IN
      Run(d, <<e>>, cnt, IF e.res.ok THEN SetFieldOrderResult(e.res.resp) ELSE Propagate(e))
      : o \in Outcomes }

\* Solver::check_sat(), continuing from a running operation st
CheckSatFrom(st) ==
    { LET e == DriverExec(CheckSatCmd, o) IN
      [st EXCEPT !.execs = Append(@, e),
                 !.ret = IF e.res.ok THEN CheckSatResult(e.res.resp, CheckSatCmd)
                         ELSE Propagate(e)]
      : o \in Outcomes }

\* Solver::get_model(), continuing from a running operation st
GetModelFrom(st) ==
    { LET e == DriverExec(GetModelCmd, o) IN
      [st EXCEPT !.execs = Append(@, e),
                 !.ret = IF e.res.ok THEN GetModelResult(e.res.resp) ELSE Propagate(e)]
      : o \in Outcomes }

\* A variant of CheckSatWithModelRuns that asks for the model whenever the
\* check-sat result is not Unsat.
CheckSatWithModelEager(d, cnt) ==
    UNION {
        IF st.ret \in {OkRet("Sat"), OkRet("Unknown")}
        THEN { IF st2.ret = OkRet("Model") THEN [st2 EXCEPT !.ret = OkRet("Sat(Model)")]
               ELSE st2
               : st2 \in GetModelFrom([st EXCEPT !.ret = NoRet]) }
        ELSE {st}
        : st \in CheckSatFrom(Run(d, <<>>, cnt, NoRet)) }

\* Solver::check_sat_with_model(): check_sat()?, and get_model()? on Sat
CheckSatWithModelRuns(d, cnt) ==
    UNION {
        IF st.ret = OkRet("Sat")
        THEN { IF st2.ret = OkRet("Model") THEN [st2 EXCEPT !.ret = OkRet("Sat(Model)")]
               ELSE st2
               : st2 \in GetModelFrom([st EXCEPT !.ret = NoRet]) }
        ELSE {st}
        : st \in CheckSatFrom(Run(d, <<>>, cnt, NoRet)) }

----------------------------------------------------------------------------
(* The inputs the operations are called with. *)

BoolSort == SortOf(Simple("Bool"))

FieldSort == SortOf(Simple("F"))

Sorts == {BoolSort, FieldSort}

\* The names constants are made from.
Names == {"a", "b"}

\* A variant of from_name that leaves the name unquoted.
from_name_bare(name, sort) ==
    [name |-> name, term |-> Identifier(qual_ident(name, sort))]

\* T::from_name(name), T::sort() = sort: Const(|name|, (as |name| sort))
from_name(name, sort) ==
    LET quoted == "|" \o name \o "|"
    IN  [name |-> quoted, term |-> Identifier(qual_ident(quoted, sort))]

\* Const::name() of the constants made from Names
Syms == {from_name(n, s).name : n \in Names, s \in Sorts}

Logics == {"QF_FF", "QF_IDL"}

Primes == {5, 7}

\* T::from_name(name) for the names and sorts above
SortedLeaves == {from_name(n, s).term : n \in Names, s \in Sorts}

IndexedLeaf == Identifier(QSorted(Indexed("extract", <<"1", "0">>), FieldSort))

\* Bool::from(true)
TrueLeaf == Identifier(qual_ident("true", None))

\* FieldElement::from(2)
Two == Identifier(qual_ident("(as ff2 F)", None))

Numeral == SpecConstant("7")

ArgLeaves == SortedLeaves \cup {Two}

\* SortedVar(Symbol, Sort)
BoundVar == [sym |-> "|v|", sort |-> FieldSort]

BaseTerms ==
    SortedLeaves \cup {IndexedLeaf, TrueLeaf, Two, Numeral}
    \cup {fun("=", <<a, b>>) : a, b \in ArgLeaves}
    \cup {Application(QSorted(Simple("|a|"), s), <<a>>) : s \in Sorts, a \in SortedLeaves}
    \cup {Forall(<<BoundVar>>, b) : b \in SortedLeaves}
    \cup {Exists(<<BoundVar>>, b) : b \in SortedLeaves}
    \cup {Let(<<[sym |-> "|v|", term |-> Two]>>, b) : b \in SortedLeaves}
    \cup {Match(b, <<[pat |-> "|v|", term |-> TrueLeaf]>>) : b \in SortedLeaves}
    \cup {Annotation(b, <<[kw |-> ":named", val |-> "named-label-0"]>>) : b \in SortedLeaves}
    \cup {fun("and", <<a, Forall(<<BoundVar>>, b)>>) : a, b \in SortedLeaves}

RECURSIVE Nest(_, _)
Nest(k, t) == IF k = 0 THEN t ELSE fun("not", <<Nest(k - 1, t)>>)

Terms == {Nest(k, t) : k \in 0..MaxNest, t \in BaseTerms}

----------------------------------------------------------------------------
(* Label::generate and Sort::labeled, called from several threads.          *)

\* The threads that make labels.
Threads == {"t1", "t2", "t3"}

\* How many labels one thread makes.
MaxLabels == 2

\* A variant of fetch_add that reads the counter and does not advance it.
load(count) == [ret |-> count, new |-> count]

\* NAMED_LABEL_COUNT.fetch_add(1, Ordering::Relaxed): one atomic
\* read-modify-write, which returns the value read.
fetch_add(count) == [ret |-> count, new |-> count + 1]

\* Label::name
LabelName(n) == "named-label-" \o ToString(n)

LabelInit ==
    /\ NAMED_LABEL_COUNT = 0
    /\ labelThreads = [t \in Threads |-> [pc |-> "idle", n |-> 0, labels |-> <<>>]]

\* No function has been called.
NoCall == [fn |-> "none"]

CallInit == call = NoCall

\* No future of the AsyncDriver is pending.
NoFuture == [fn |-> "none"]

\* Neither driver has been constructed.
DriverInit ==
    /\ driver = [st |-> "none", log |-> <<>>]
    /\ asyncDriver = [st |-> "none", log |-> <<>>, fut |-> NoFuture]

\* Nothing has been built yet.
NoTerm == [ty |-> "none"]

TermInit == built = NoTerm

\* The state outside the Solver session, at its start.
OthersInit == LabelInit /\ TermInit /\ DriverInit /\ CallInit

\* Label::generate in thread t: the fetch_add and the Label it returns.
Generate(t) ==
    /\ labelThreads[t].pc = "idle"
    /\ Len(labelThreads[t].labels) < MaxLabels
    /\ LET r == fetch_add(NAMED_LABEL_COUNT) IN
       /\ NAMED_LABEL_COUNT' = r.new
       /\ labelThreads' = [labelThreads EXCEPT ![t].pc = "generated", ![t].n = r.ret]
    /\ UNCHANGED <<vars, termVars, driverVars, callVars>>

\* Sort::labeled in thread t, after Label::generate: label.name() goes into
\* the :named annotation.
Labeled(t) ==
    /\ labelThreads[t].pc = "generated"
    /\ labelThreads' = [labelThreads EXCEPT
                          ![t].pc = "idle",
                          ![t].labels = Append(@, [n |-> labelThreads[t].n,
                                                   name |-> LabelName(labelThreads[t].n)])]
    /\ UNCHANGED <<NAMED_LABEL_COUNT, vars, termVars, driverVars, callVars>>

LabelNext == \E t \in Threads : Generate(t) \/ Labeled(t)


----------------------------------------------------------------------------
(* The typed term layer: the builders of theories/core.rs,                  *)
(* theories/fieldelements.rs and terms.rs.  A caller makes a value from    *)
(* nothing (a leaf, an array of leaves), builds on the value it made last,  *)
(* or drops it and starts again.                                            *)

\* The longest array a caller passes to and, or, xor, equal and distinct.
MaxArgs == 2

\* The largest term a caller builds, in nodes.
MaxTermSize == 4

RECURSIVE Sum(_)
Sum(ns) == IF ns = <<>> THEN 0 ELSE Head(ns) + Sum(Tail(ns))

\* The number of nodes (terms and sorted variables) of a term the typed
\* layer builds.
RECURSIVE Size(_)
Size(t) ==
    CASE t.tag = "Application"         -> 1 + Sum([k \in DOMAIN t.args |-> Size(t.args[k])])
      [] t.tag \in {"Forall", "Exists"} -> 1 + Len(t.svars) + Size(t.body)
      [] OTHER                          -> 1

\* Bool::from(b)
BoolFrom(b) == Identifier(qual_ident(IF b THEN "true" ELSE "false", None))

\* FieldElement::from(i)
FieldElementFrom(i) == Identifier(qual_ident("(as ff" \o ToString(i) \o " F)", None))

\* Bool::binop / FieldElement::binop
binop(self, f, other) == fun(f, <<self, other>>)

\* Bool::implies
implies(self, other) == binop(self, "=>", other)

\* Bool::ite
ite(self, then, otherwise) == fun("ite", <<self, then, otherwise>>)

\* impl Not for Bool
not(self) == fun("not", <<self>>)

\* impl Neg for FieldElement
neg(self) == fun("ff.neg", <<self>>)

\* core::and / or / xor / equal / distinct over an array of N terms
and(terms) == fun("and", terms)

or(terms) == fun("or", terms)

xor(terms) == fun("xor", terms)

equal(terms) == fun("=", terms)

distinct(terms) == fun("distinct", terms)

\* Sort::_eq / Sort::_neq
Sort_eq(self, other) == fun("=", <<self, other>>)

Sort_neq(self, other) == fun("distinct", <<self, other>>)

\* terms::forall / terms::exists over the variables of one Const
forall(c, sort, term) == Forall(<<[sym |-> c.name, sort |-> sort]>>, term)

exists(c, sort, term) == Exists(<<[sym |-> c.name, sort |-> sort]>>, term)

\* The Rust types of the typed values, with their Sort::sort().
Types == {"Bool", "FieldElement"}

sort(ty) == IF ty = "Bool" THEN BoolSort ELSE FieldSort

\* The integers field elements are made from.
FieldInts == {2}

\* The name the constants of the typed values are made from.
ConstNames == {"a"}

\* The values of a type a caller passes as the other arguments of an
\* operation: the constants of that type.
TermLeaves(ty) == {from_name(n, sort(ty)).term : n \in ConstNames}

\* A typed value: the term a wrapper type holds.
Val(ty, term) == [ty |-> ty, term |-> term]

\* The arrays [T; N] a caller can pass, N = 0 included: of leaves when it
\* holds no value, with the value built last among the leaves when it holds
\* one of type T.
Arrays(ty) ==
    IF built = NoTerm
    THEN UNION {[1..n -> TermLeaves(ty)] : n \in 0..MaxArgs}
    ELSE IF built.ty # ty THEN {}
    ELSE {a \in UNION {[1..n -> TermLeaves(ty) \cup {built.term}] : n \in 1..MaxArgs} :
            \E k \in DOMAIN a : a[k] = built.term}

Build(v) ==
    /\ Size(v.term) <= MaxTermSize
    /\ built' = v
    /\ UNCHANGED <<vars, labelVars, driverVars, callVars>>

BoolFromBool ==
    /\ built = NoTerm
    /\ \E b \in BOOLEAN : Build(Val("Bool", BoolFrom(b)))

FieldElementFromI64 ==
    /\ built = NoTerm
    /\ \E i \in FieldInts : Build(Val("FieldElement", FieldElementFrom(i)))

SortFromName ==
    /\ built = NoTerm
    /\ \E ty \in Types, n \in ConstNames : Build(Val(ty, from_name(n, sort(ty)).term))

BoolNot == built.ty = "Bool" /\ Build(Val("Bool", not(built.term)))

BoolOp ==
    /\ built.ty = "Bool"
    /\ \E f \in {"and", "or", "xor"}, other \in TermLeaves("Bool") :
          Build(Val("Bool", binop(built.term, f, other)))

BoolImplies ==
    /\ built.ty = "Bool"
    /\ \E other \in TermLeaves("Bool") : Build(Val("Bool", implies(built.term, other)))

BoolIte ==
    /\ built.ty = "Bool"
    /\ \E then, otherwise \in TermLeaves("Bool") :
          Build(Val("Bool", ite(built.term, then, otherwise)))

CoreAnd == \E terms \in Arrays("Bool") : Build(Val("Bool", and(terms)))

CoreOr == \E terms \in Arrays("Bool") : Build(Val("Bool", or(terms)))

CoreXor == \E terms \in Arrays("Bool") : Build(Val("Bool", xor(terms)))

CoreEqual == \E ty \in Types : \E terms \in Arrays(ty) : Build(Val("Bool", equal(terms)))

CoreDistinct == \E ty \in Types : \E terms \in Arrays(ty) : Build(Val("Bool", distinct(terms)))

FieldOp ==
    /\ built.ty = "FieldElement"
    /\ \E f \in {"ff.add", "ff.mul"}, other \in TermLeaves("FieldElement") :
          Build(Val("FieldElement", binop(built.term, f, other)))

FieldNeg == built.ty = "FieldElement" /\ Build(Val("FieldElement", neg(built.term)))

SortEq ==
    /\ built.ty \in Types
    /\ \E other \in TermLeaves(built.ty) : Build(Val("Bool", Sort_eq(built.term, other)))

SortNeq ==
    /\ built.ty \in Types
    /\ \E other \in TermLeaves(built.ty) : Build(Val("Bool", Sort_neq(built.term, other)))

QuantForall ==
    /\ built.ty = "Bool"
    /\ \E ty \in Types, n \in ConstNames :
          Build(Val("Bool", forall(from_name(n, sort(ty)), sort(ty), built.term)))

QuantExists ==
    /\ built.ty = "Bool"
    /\ \E ty \in Types, n \in ConstNames :
          Build(Val("Bool", exists(from_name(n, sort(ty)), sort(ty), built.term)))

\* The caller drops the value it holds.
Drop ==
    /\ built # NoTerm
    /\ built' = NoTerm
    /\ UNCHANGED <<vars, labelVars, driverVars, callVars>>

TermNext ==
    \/ BoolFromBool
    \/ FieldElementFromI64
    \/ SortFromName
    \/ BoolNot
    \/ BoolOp
    \/ BoolImplies
    \/ BoolIte
    \/ CoreAnd
    \/ CoreOr
    \/ CoreXor
    \/ CoreEqual
    \/ CoreDistinct
    \/ FieldOp
    \/ FieldNeg
    \/ SortEq
    \/ SortNeq
    \/ QuantForall
    \/ QuantExists
    \/ Drop

----------------------------------------------------------------------------
(* Driver and AsyncDriver side by side.  The Driver goes first: its caller  *)
(* picks each command and its backend each outcome.  The AsyncDriver is     *)
(* given the same commands, and its backend yields the same outcomes; each  *)
(* of its calls is a future that suspends at backend.exec(cmd).await and is *)
(* polled to its end.                                                       *)

\* How many commands the caller passes to exec after new.
MaxExecs == 2

\* The commands the caller passes to exec.
DriverCmds == {SetLogicCmd("QF_FF"), CheckSatCmd}

\* A variant of AsyncDriverExec that takes an I/O error of the backend for
\* `success`.
AsyncDriverExecLossy(cmd, out) ==
    [cmd   |-> cmd,
     calls |-> <<BackendCall(cmd, out)>>,
     res   |-> IF out = IoFailure THEN ExecOk(Success)
               ELSE LET specific == parse_response(cmd, out)
                        general  == GeneralResponseParse(out)
                    IN  IF ~specific.ok THEN ExecErr("Parse")
                        ELSE IF specific.some
                        THEN ExecOk(SpecificSuccessResponse(specific.r))
                        ELSE IF general.ok THEN ExecOk(general.resp)
                        ELSE ExecErr("Parse")]

\* AsyncDriver::exec, from the call to the end of the future; `out` is what
\* the awaited backend call yields.
AsyncDriverExec(cmd, out) ==
    [cmd   |-> cmd,
     calls |-> <<BackendCall(cmd, out)>>,
     res   |-> IF out = IoFailure THEN ExecErr("IO")
               ELSE LET specific == parse_response(cmd, out)
                        general  == GeneralResponseParse(out)
                    IN  IF ~specific.ok THEN ExecErr("Parse")
                        ELSE IF specific.some
                        THEN ExecOk(SpecificSuccessResponse(specific.r))
                        ELSE IF general.ok THEN ExecOk(general.resp)
                        ELSE ExecErr("Parse")]

\* Driver::new(backend, verbose): Ok(driver) unless the exec of set-option
\* returns an Err.
DriverNew ==
    /\ driver.st = "none"
    /\ \E out \in Outcomes :
          LET e == DriverExec(SetOptionPrintSuccess, out) IN
          driver' = [st  |-> IF e.res.ok THEN "ready" ELSE "failed",
                     log |-> <<e>>]
    /\ UNCHANGED <<asyncDriver, vars, labelVars, termVars, callVars>>

\* Driver::exec(cmd), once the AsyncDriver has caught up.
DriverExecCall ==
    /\ driver.st = "ready"
    /\ asyncDriver.st = "ready"
    /\ Len(asyncDriver.log) = Len(driver.log)
    /\ Len(driver.log) <= MaxExecs
    /\ \E cmd \in DriverCmds, out \in Outcomes :
          driver' = [driver EXCEPT !.log = Append(@, DriverExec(cmd, out))]
    /\ UNCHANGED <<asyncDriver, vars, labelVars, termVars, callVars>>

\* AsyncDriver::new(backend), up to the await: set-option is with the backend.
AsyncDriverNew ==
    /\ asyncDriver.st = "none"
    /\ driver.st # "none"
    /\ asyncDriver' = [asyncDriver EXCEPT
                          !.st = "awaiting",
                          !.fut = [fn |-> "new", cmd |-> SetOptionPrintSuccess]]
    /\ UNCHANGED <<driver, vars, labelVars, termVars, callVars>>

\* AsyncDriver::exec(cmd), up to the await, with the command the Driver was
\* given at this place.
AsyncDriverExecCall ==
    /\ asyncDriver.st = "ready"
    /\ Len(asyncDriver.log) < Len(driver.log)
    /\ asyncDriver' = [asyncDriver EXCEPT
                          !.st = "awaiting",
                          !.fut = [fn  |-> "exec",
                                   cmd |-> driver.log[Len(asyncDriver.log) + 1].cmd]]
    /\ UNCHANGED <<driver, vars, labelVars, termVars, callVars>>

\* The backend call completes, with the outcome the Driver's backend gave at
\* this place, and the future runs to its end.
AsyncDriverResume ==
    /\ asyncDriver.st = "awaiting"
    /\ LET out == driver.log[Len(asyncDriver.log) + 1].calls[1].out
           e   == AsyncDriverExec(asyncDriver.fut.cmd, out)
       IN  asyncDriver' =
              [st  |-> IF asyncDriver.fut.fn = "new" /\ ~e.res.ok THEN "failed" ELSE "ready",
               log |-> Append(asyncDriver.log, e),
               fut |-> NoFuture]
    /\ UNCHANGED <<driver, vars, labelVars, termVars, callVars>>

AsyncNext ==
    \/ DriverNew
    \/ DriverExecCall
    \/ AsyncDriverNew
    \/ AsyncDriverExecCall
    \/ AsyncDriverResume

----------------------------------------------------------------------------
(* Functions of terms and of literals, called on their own: the caller     *)
(* passes an argument and gets the result, or the call panics.             *)

\* What strip_sort gives: the stripped term, or a panic (todo!()).
Stripped(t) == [panic |-> FALSE, term |-> t]

StripPanic == [panic |-> TRUE]

\* Term::strip_sort
RECURSIVE strip_sort(_)
strip_sort(t) ==
    CASE t.tag = "SpecConstant" -> Stripped(t)
      [] t.tag = "Identifier"   -> Stripped(Identifier(QIdentifier(t.q.id)))
      [] t.tag = "Application"  ->
            LET args == [k \in DOMAIN t.args |-> strip_sort(t.args[k])]
            IN  IF \E k \in DOMAIN args : args[k].panic
                THEN StripPanic
                ELSE Stripped(Application(QIdentifier(t.q.id),
                                          [k \in DOMAIN args |-> args[k].term]))
      [] t.tag = "Let"          -> StripPanic
      [] t.tag = "Forall"       -> Stripped(Forall(t.svars, t.body))
      [] t.tag = "Exists"       -> StripPanic
      [] t.tag = "Match"        -> StripPanic
      [] t.tag = "Annotation"   -> StripPanic

\* t.strip_sort() for a term t
StripSort ==
    /\ call = NoCall
    /\ \E t \in Terms :
        /\ call' = [fn |-> "strip_sort", arg |-> t, res |-> strip_sort(t)]
        /\ UNCHANGED <<vars, labelVars, termVars, driverVars>>

\* The longest digit string of a literal.
MaxDigits == 2

\* The decimal digits, as characters, in the order of their values.
DigitChars == <<"0", "1", "2", "3", "4", "5", "6", "7", "8", "9">>

IsDigit(c) == \E k \in DOMAIN DigitChars : DigitChars[k] = c

DigitValue(c) == (CHOOSE k \in DOMAIN DigitChars : DigitChars[k] = c) - 1

\* The digit strings of up to MaxDigits characters.
DigitStrings ==
    UNION {[1..n -> {DigitChars[k] : k \in DOMAIN DigitChars}] : n \in 1..MaxDigits}

\* The lexemes ff<digits>, as the characters of Fieldelement.0
FieldelementLexemes == {<<"f", "f">> \o ds : ds \in DigitStrings}

\* The number a string of decimal digits stands for.
RECURSIVE DecimalValue(_)
DecimalValue(ds) ==
    IF ds = <<>> THEN 0
    ELSE 10 * DecimalValue(SubSeq(ds, 1, Len(ds) - 1)) + DigitValue(ds[Len(ds)])

\* BigUint::from_str_radix(s, 10): an Err for an empty string and for a
\* string holding anything but digits.
from_str_radix(s) ==
    IF s # <<>> /\ \A k \in DOMAIN s : IsDigit(s[k])
    THEN [ok |-> TRUE, val |-> DecimalValue(s)]
    ELSE [ok |-> FALSE]

\* The end of the run of digits that starts at s[i].
RECURSIVE DigitsEnd(_, _)
DigitsEnd(s, i) ==
    IF i < Len(s) /\ IsDigit(s[i + 1]) THEN DigitsEnd(s, i + 1) ELSE i

\* Regex::new(r"f[0-9]+").find(s): the leftmost match, as long as it gets.
FindFDigits(s) ==
    LET starts == {i \in 1..(Len(s) - 1) : s[i] = "f" /\ IsDigit(s[i + 1])}
    IN  IF starts = {} THEN [some |-> FALSE]
        ELSE LET i == CHOOSE i \in starts : \A j \in starts : i <= j
             IN  [some |-> TRUE, match |-> SubSeq(s, i, DigitsEnd(s, i + 1))]

\* Fieldelement::parse (lexicon.rs)
Fieldelement_parse(lexeme) ==
    LET found == FindFDigits(lexeme) IN
    IF ~found.some THEN PanicRet("unwrap on None")
    ELSE LET big_u == from_str_radix(found.match) IN
         IF big_u.ok THEN OkRet(big_u.val) ELSE PanicRet("Invalid number")

\* lexeme.parse() for a lexeme ff<digits>
FieldelementParse ==
    /\ call = NoCall
    /\ \E lexeme \in FieldelementLexemes :
        /\ call' = [fn |-> "Fieldelement::parse", arg |-> lexeme,
                    res |-> Fieldelement_parse(lexeme)]
        /\ UNCHANGED <<vars, labelVars, termVars, driverVars>>

\* The largest integer a literal is made from.
MaxValue == 10^MaxDigits - 1

\* Display of a BigUint (and of an i64 that is not negative): its decimal
\* digits, no leading zero.
RECURSIVE DecimalDigits(_)
DecimalDigits(n) ==
    IF n < 10 THEN <<DigitChars[n + 1]>>
    ELSE DecimalDigits(n \div 10) \o <<DigitChars[(n % 10) + 1]>>

\* Display of an i64: a minus sign before the digits of a negative number.
I64Display(i) == IF i < 0 THEN <<"-">> \o DecimalDigits(-i) ELSE DecimalDigits(i)

\* format!("(as ff{i} F)"), character by character, for {i} displayed as d
FormatFieldElement(d) == <<"(", "a", "s", " ", "f", "f">> \o d \o <<" ", "F", ")">>

\* impl From<i64> for FieldElement: the term whose symbol is the formatted
\* string (here the string is its characters; FieldElementFrom is the same
\* function over whole strings).
FieldElement_from_i64(i) == Identifier(qual_ident(FormatFieldElement(I64Display(i)), None))

\* impl From<BigUint> for FieldElement
FieldElement_from_BigUint(n) ==
    Identifier(qual_ident(FormatFieldElement(DecimalDigits(n)), None))

\* Display for FieldElement: the term's rendering, which for these
\* identifiers is the string of the symbol.
FieldElementDisplay(t) == RenderTerm(t)[1]

\* Regex::new(r"[0-9]+").find(s): the leftmost match, as long as it gets.
FindDigits(s) ==
    LET starts == {i \in 1..Len(s) : IsDigit(s[i])}
    IN  IF starts = {} THEN [some |-> FALSE]
        ELSE LET i == CHOOSE i \in starts : \A j \in starts : i <= j
             IN  [some |-> TRUE, match |-> SubSeq(s, i, DigitsEnd(s, i))]

\* A variant of to_biguint that searches with the regex of
\* Fieldelement::parse, f[0-9]+.
to_biguint_f(t) ==
    LET found == FindFDigits(FieldElementDisplay(t)) IN
    IF ~found.some THEN PanicRet("unwrap on None")
    ELSE LET big_u == from_str_radix(found.match) IN
         IF big_u.ok THEN OkRet(big_u.val) ELSE PanicRet("Invalid number")

\* FieldElement::to_biguint
to_biguint(t) ==
    LET found == FindDigits(FieldElementDisplay(t)) IN
    IF ~found.some THEN PanicRet("unwrap on None")
    ELSE LET big_u == from_str_radix(found.match) IN
         IF big_u.ok THEN OkRet(big_u.val) ELSE PanicRet("Invalid number")

\* FieldElement::from(i) for an i64
FromI64 ==
    /\ call = NoCall
    /\ \E i \in (-MaxValue)..MaxValue :
        /\ call' = [fn |-> "FieldElement::from(i64)", arg |-> i,
                    res |-> FieldElement_from_i64(i)]
        /\ UNCHANGED <<vars, labelVars, termVars, driverVars>>

\* FieldElement::from(n) for a BigUint
FromBigUint ==
    /\ call = NoCall
    /\ \E n \in 0..MaxValue :
        /\ call' = [fn |-> "FieldElement::from(BigUint)", arg |-> n,
                    res |-> FieldElement_from_BigUint(n)]
        /\ UNCHANGED <<vars, labelVars, termVars, driverVars>>

\* to_biguint() of the literal just made
ToBiguint ==
    /\ call.fn \in {"FieldElement::from(i64)", "FieldElement::from(BigUint)"}
    /\ call' = [fn |-> "FieldElement::to_biguint", arg |-> call.res,
                made |-> call.fn, of |-> call.arg, res |-> to_biguint(call.res)]
    /\ UNCHANGED <<vars, labelVars, termVars, driverVars>>

\* The caller takes the result of the call that returned.
CallReturn ==
    /\ call # NoCall
    /\ call' = NoCall
    /\ UNCHANGED <<vars, labelVars, termVars, driverVars>>

CallNext ==
    \/ StripSort
    \/ FieldelementParse
    \/ FromI64
    \/ FromBigUint
    \/ ToBiguint
    \/ CallReturn

----------------------------------------------------------------------------
(* The state machine. *)

\* No operation has returned a result that its caller has not yet taken.
NoOp == [name |-> "none"]

\* The Solver exists and no operation is running on it (&mut self).
Idle == phase = "ready" /\ op = NoOp

\* The backend has received nothing.
NoCmd == [name |-> "none"]

\* The commands passed to the backend by a sequence of execs, in order.
Sent(ex) == Concat([k \in DOMAIN ex |-> [j \in DOMAIN ex[k].calls |-> ex[k].calls[j].cmd]])

Init ==
    /\ phase = "start"
    /\ decls = EmptyMap
    /\ op = NoOp
    /\ execs = <<>>
    /\ ret = NoRet
    /\ declSent = [s \in Syms |-> 0]
    /\ firstCmd = NoCmd
    /\ OthersInit

\* The operation `o` ran as `st`: a panic unwinds and ends the session.
Finish(o, st) ==
    /\ \A s \in Syms : st.declSent[s] <= MaxDeclSent
    /\ op' = o
    /\ decls' = st.decls
    /\ execs' = st.execs
    /\ ret' = st.ret
    /\ declSent' = st.declSent
    /\ phase' = IF st.ret.kind = "Panic" THEN "dead" ELSE "ready"
    /\ firstCmd' = IF firstCmd = NoCmd /\ Sent(st.execs) # <<>>
                   THEN Head(Sent(st.execs)) ELSE firstCmd
    /\ UNCHANGED others

\* Solver::new(backend) = Driver::new(backend, false): the response to
\* set-option is dropped, only an Err of exec makes construction fail.
SolverNew ==
    /\ phase = "start"
    /\ \E o \in Outcomes :
          LET e == DriverExec(SetOptionPrintSuccess, o) IN
          /\ op' = [name |-> "new"]
          /\ execs' = <<e>>
          /\ ret' = IF e.res.ok THEN OkRet("Solver") ELSE Propagate(e)
          /\ phase' = IF e.res.ok THEN "ready" ELSE "dead"
          /\ firstCmd' = IF Sent(<<e>>) # <<>> THEN Head(Sent(<<e>>)) ELSE firstCmd
          /\ UNCHANGED <<decls, declSent>>
          /\ UNCHANGED others

SolverSetLogic ==
    /\ Idle
    /\ \E logic \in Logics : \E st \in SetLogicRuns(decls, declSent, logic) :
          Finish([name |-> "set_logic", logic |-> logic], st)

SolverSetFieldOrder ==
    /\ Idle
    /\ \E prime \in Primes : \E st \in SetFieldOrderRuns(decls, declSent, prime) :
          Finish([name |-> "set_field_order", prime |-> prime], st)

SolverAssert ==
    /\ Idle
    /\ \E term \in Terms : \E st \in AssertRuns(decls, declSent, term) :
          Finish([name |-> "assert", term |-> term], st)

SolverCheckSat ==
    /\ Idle
    /\ \E st \in CheckSatFrom(Run(decls, <<>>, declSent, NoRet)) :
          Finish([name |-> "check_sat"], st)

SolverCheckSatWithModel ==
    /\ Idle
    /\ \E st \in CheckSatWithModelRuns(decls, declSent) :
          Finish([name |-> "check_sat_with_model"], st)

SolverGetModel ==
    /\ Idle
    /\ \E st \in GetModelFrom(Run(decls, <<>>, declSent, NoRet)) :
          Finish([name |-> "get_model"], st)

\* The caller takes the result of the operation that returned.
Return ==
    /\ phase = "ready"
    /\ op # NoOp
    /\ op' = NoOp
    /\ execs' = <<>>
    /\ ret' = NoRet
    /\ UNCHANGED <<phase, decls, declSent, firstCmd>>
    /\ UNCHANGED others

Next ==
    \/ SolverNew
    \/ SolverSetLogic
    \/ SolverSetFieldOrder
    \/ SolverAssert
    \/ SolverCheckSat
    \/ SolverCheckSatWithModel
    \/ SolverGetModel
    \/ Return

Spec == Init /\ [][Next]_vars

\* Label::generate and Sort::labeled called from the threads, no session running.
LabelSpec == Init /\ [][LabelNext]_<<vars, others>>

\* The typed term layer building values, no session running.
TermSpec == Init /\ [][TermNext]_<<vars, others>>

\* A Driver and an AsyncDriver over backends that behave the same, no session
\* running.
AsyncSpec == Init /\ [][AsyncNext]_<<vars, others>>

\* Functions called on their own, no session running.
CallSpec == Init /\ [][CallNext]_<<vars, others>>

----------------------------------------------------------------------------
(* The rendered text, and its way back through the lexer and the parser.   *)
(* A text is the sequence of its characters, grouped where the lexer cuts: *)
(* a parenthesis, a blank, or a run of other characters.                   *)

\* format!("(as ff{i} F)") of FieldElement::from, part by part
FieldElementText(i) == <<"(", "as", " ", "ff" \o ToString(i), " ", "F", ")">>

\* format!("(_ FiniteField {prime})") of Solver::set_field_order, part by part
FiniteFieldText(prime) == <<"(", "_", " ", "FiniteField", " ", ToString(prime), ")">>

\* The String format! returns.
RECURSIVE Join(_)
Join(parts) == IF parts = <<>> THEN "" ELSE Head(parts) \o Join(Tail(parts))

\* The strings of the model that were formatted from several parts.
Formatted ==
    {FieldElementText(i) : i \in FieldInts} \cup {FiniteFieldText(p) : p \in Primes}

\* The characters of a lexeme's string, grouped: a formatted string falls
\* into its parts, every other string of the model is one run (a quoted
\* symbol |..| is one run whatever it holds).
Chunks(s) ==
    IF \E c \in Formatted : Join(c) = s
    THEN CHOOSE c \in Formatted : Join(c) = s
    ELSE <<s>>

\* Display: the pieces written one after the other, one blank between two
\* pieces that no parenthesis separates.  A Symbol is written as its string.
RECURSIVE Text(_)
Text(pieces) ==
    IF pieces = <<>> THEN <<>>
    ELSE Chunks(Head(pieces))
         \o (IF Len(pieces) > 1 /\ Head(pieces) # "(" /\ pieces[2] # ")"
             THEN <<" ">> ELSE <<>>)
         \o Text(Tail(pieces))

IsBlank(c) == c = " "

IsToken(c) == ~IsBlank(c)

\* The lexer: blanks separate tokens and are discarded, parentheses stand
\* alone, every other run is one lexeme.
Lex(text) == SelectSeq(text, IsToken)

Reserved == {"_", "!", "as", "let", "forall", "exists", "match", "par"}

Numerals == {ToString(n) : n \in 0..9}

Keywords == {":named", ":print-success"}

\* The lexemes ff<digits>
FieldLexemes == {"ff" \o ToString(n) : n \in 0..9}

\* Token kinds.  An ff<digits> lexeme is a symbol wherever an identifier is
\* expected and a literal in the place of a term.
Kind(tok) ==
    CASE tok = "("           -> "LParen"
      [] tok = ")"           -> "RParen"
      [] tok \in Numerals    -> "Numeral"
      [] tok \in Keywords    -> "Keyword"
      [] tok \in Reserved    -> "Reserved"
      [] OTHER               -> "Symbol"

\* What a parser returns: the value and the tokens left, or a ParseError.
Parsed(val, rest) == [ok |-> TRUE, val |-> val, rest |-> rest]

ParseError == [ok |-> FALSE]

\* close_paren()
Closes(ts) == ts # <<>> /\ Head(ts) = ")"

\* index+ : numerals or symbols
RECURSIVE ParseIndices(_)
ParseIndices(ts) ==
    IF ts # <<>> /\ Kind(ts[1]) \in {"Numeral", "Symbol"}
    THEN LET r == ParseIndices(Tail(ts)) IN Parsed(<<ts[1]>> \o r.val, r.rest)
    ELSE Parsed(<<>>, ts)

\* Identifier: symbol | ( _ symbol index+ )
ParseIdentifier(ts) ==
    IF ts = <<>> THEN ParseError
    ELSE IF Kind(ts[1]) = "Symbol" THEN Parsed(Simple(ts[1]), Tail(ts))
    ELSE IF Len(ts) >= 3 /\ ts[1] = "(" /\ ts[2] = "_" /\ Kind(ts[3]) = "Symbol"
    THEN LET r == ParseIndices(SubSeq(ts, 4, Len(ts))) IN
         IF r.val # <<>> /\ Closes(r.rest)
         THEN Parsed(Indexed(ts[3], r.val), Tail(r.rest))
         ELSE ParseError
    ELSE ParseError

\* Sort: identifier (the parametric form, which nothing here renders, is
\* left out)
ParseSort(ts) ==
    LET i == ParseIdentifier(ts) IN
    IF i.ok THEN Parsed(SortOf(i.val), i.rest) ELSE ParseError

\* QualIdentifier: identifier | ( as identifier sort )
ParseQualIdentifier(ts) ==
    IF Len(ts) >= 2 /\ ts[1] = "(" /\ ts[2] = "as"
    THEN LET i == ParseIdentifier(SubSeq(ts, 3, Len(ts))) IN
         IF ~i.ok THEN ParseError
         ELSE LET s == ParseSort(i.rest) IN
              IF s.ok /\ Closes(s.rest)
              THEN Parsed(QSorted(i.val, s.val), Tail(s.rest))
              ELSE ParseError
    ELSE LET i == ParseIdentifier(ts) IN
         IF i.ok THEN Parsed(QIdentifier(i.val), i.rest) ELSE ParseError

\* sorted_var* : ( symbol sort )
RECURSIVE ParseSortedVars(_)
ParseSortedVars(ts) ==
    IF Len(ts) >= 2 /\ ts[1] = "(" /\ Kind(ts[2]) = "Symbol"
    THEN LET s == ParseSort(SubSeq(ts, 3, Len(ts))) IN
         IF s.ok /\ Closes(s.rest)
         THEN LET r == ParseSortedVars(Tail(s.rest)) IN
              IF r.ok
              THEN Parsed(<<[sym |-> ts[2], sort |-> s.val]>> \o r.val, r.rest)
              ELSE ParseError
         ELSE ParseError
    ELSE Parsed(<<>>, ts)

\* attribute* : keyword symbol
RECURSIVE ParseAttributes(_)
ParseAttributes(ts) ==
    IF Len(ts) >= 2 /\ Kind(ts[1]) = "Keyword" /\ Kind(ts[2]) = "Symbol"
    THEN LET r == ParseAttributes(SubSeq(ts, 3, Len(ts))) IN
         Parsed(<<[kw |-> ts[1], val |-> ts[2]]>> \o r.val, r.rest)
    ELSE Parsed(<<>>, ts)

\* Term, by the next one or two tokens (let and match, which the typed
\* layer does not build, are left out), and term* up to a closing
\* parenthesis.
RECURSIVE ParseTerm(_), ParseTerms(_)
ParseTerms(ts) ==
    IF ts = <<>> \/ Head(ts) = ")" THEN Parsed(<<>>, ts)
    ELSE LET t == ParseTerm(ts) IN
         IF ~t.ok THEN ParseError
         ELSE LET r == ParseTerms(t.rest) IN
              IF r.ok THEN Parsed(<<t.val>> \o r.val, r.rest) ELSE ParseError

ParseTerm(ts) ==
    IF ts = <<>> THEN ParseError
    ELSE IF Kind(ts[1]) = "Numeral" \/ ts[1] \in FieldLexemes
    THEN Parsed(SpecConstant(ts[1]), Tail(ts))
    ELSE IF ts[1] # "(" \/ (Len(ts) >= 2 /\ ts[2] \in {"as", "_"})
    THEN LET q == ParseQualIdentifier(ts) IN
         IF q.ok THEN Parsed(Identifier(q.val), q.rest) ELSE ParseError
    ELSE IF Len(ts) < 2 THEN ParseError
    ELSE IF ts[2] \in {"forall", "exists"}
    THEN IF Len(ts) < 3 \/ ts[3] # "(" THEN ParseError
         ELSE LET v == ParseSortedVars(SubSeq(ts, 4, Len(ts))) IN
              IF ~(v.ok /\ v.val # <<>> /\ Closes(v.rest)) THEN ParseError
              ELSE LET b == ParseTerm(Tail(v.rest)) IN
                   IF b.ok /\ Closes(b.rest)
                   THEN Parsed(IF ts[2] = "forall" THEN Forall(v.val, b.val)
                                                   ELSE Exists(v.val, b.val),
                               Tail(b.rest))
                   ELSE ParseError
    ELSE IF ts[2] = "!"
    THEN LET t == ParseTerm(SubSeq(ts, 3, Len(ts))) IN
         IF ~t.ok THEN ParseError
         ELSE LET a == ParseAttributes(t.rest) IN
              IF a.val # <<>> /\ Closes(a.rest)
              THEN Parsed(Annotation(t.val, a.val), Tail(a.rest))
              ELSE ParseError
    ELSE IF ts[2] \in Reserved THEN ParseError
    ELSE LET q == ParseQualIdentifier(Tail(ts)) IN
         IF ~q.ok THEN ParseError
         ELSE LET a == ParseTerms(q.rest) IN
              IF a.ok /\ a.val # <<>> /\ Closes(a.rest)
              THEN Parsed(Application(q.val, a.val), Tail(a.rest))
              ELSE ParseError

\* Command::parse: ( name ... ), the name looked up in the command table
\* (here: the commands the Solver sends); nothing may follow the command.
ParseCommand(ts) ==
    IF Len(ts) < 3 \/ ts[1] # "(" THEN ParseError
    ELSE
    LET body == SubSeq(ts, 3, Len(ts))
        End(val, rest) == IF rest = <<")">> THEN Parsed(val, <<>>) ELSE ParseError
    IN
    CASE ts[2] = "check-sat" -> End(CheckSatCmd, body)
      [] ts[2] = "get-model" -> End(GetModelCmd, body)
      [] ts[2] = "set-option" ->
            IF Len(body) >= 2 /\ Kind(body[1]) = "Keyword" /\ Kind(body[2]) = "Symbol"
            THEN End([name |-> "set-option", option |-> body[1], value |-> body[2]],
                     SubSeq(body, 3, Len(body)))
            ELSE ParseError
      [] ts[2] = "set-logic" ->
            IF Kind(body[1]) = "Symbol"
            THEN End(SetLogicCmd(body[1]), Tail(body))
            ELSE ParseError
      [] ts[2] = "declare-const" ->
            IF Kind(body[1]) # "Symbol" THEN ParseError
            ELSE LET s == ParseSort(Tail(body)) IN
                 IF s.ok THEN End(DeclareConst(body[1], s.val), s.rest) ELSE ParseError
      [] ts[2] = "define-sort" ->
            IF ~(Len(body) >= 3 /\ Kind(body[1]) = "Symbol"
                                /\ body[2] = "(" /\ body[3] = ")")
            THEN ParseError
            ELSE LET s == ParseSort(SubSeq(body, 4, Len(body))) IN
                 IF s.ok THEN End(DefineSort(body[1], s.val), s.rest) ELSE ParseError
      [] ts[2] = "assert" ->
            LET t == ParseTerm(body) IN
            IF t.ok THEN End(AssertCmd(t.val), t.rest) ELSE ParseError
      [] OTHER -> ParseError

\* Rendered, lexed and parsed again.
ReparseCommand(c) == ParseCommand(Lex(Text(RenderCmd(c))))

ReparseTerm(t) == ParseTerm(Lex(Text(RenderTerm(t))))

----------------------------------------------------------------------------
(* Vocabulary of the properties. *)

\* Every sort-annotated qualified identifier that occurs anywhere in a term:
\* heads of applications, identifier leaves, and everything under Let, Forall,
\* Exists, Match and Annotation.
RECURSIVE AllSorted(_)
AllSorted(t) ==
    CASE t.tag = "SpecConstant" -> {}
      [] t.tag = "Identifier"   -> IF t.q.kind = "Sorted" THEN {t.q} ELSE {}
      [] t.tag = "Application"  ->
            (IF t.q.kind = "Sorted" THEN {t.q} ELSE {})
            \cup UNION {AllSorted(t.args[k]) : k \in DOMAIN t.args}
      [] t.tag = "Let"          ->
            AllSorted(t.body)
            \cup UNION {AllSorted(t.bindings[k].term) : k \in DOMAIN t.bindings}
      [] t.tag \in {"Forall", "Exists"} -> AllSorted(t.body)
      [] t.tag = "Match"        ->
            AllSorted(t.term)
            \cup UNION {AllSorted(t.cases[k].term) : k \in DOMAIN t.cases}
      [] t.tag = "Annotation"   -> AllSorted(t.term)

\* The positions at which command c was passed to the backend by execs ex.
SentAt(ex, c) == {k \in DOMAIN Sent(ex) : Sent(ex)[k] = c}

\* The outcome the backend gave to the last exec of ex.
LastOut(ex) == ex[Len(ex)].calls[Len(ex[Len(ex)].calls)].out

----------------------------------------------------------------------------
(* C1 -- Solver::assert: every command the call sends before the last one   *)
(* is a declare-const, (assert term) is sent at most once and only as the   *)
(* last command of the call, and the call returns Ok only if (assert term)  *)
(* was sent and the backend answered it with success.                       *)

C1_AssertOrder ==
    op.name = "assert" =>
        LET sent == Sent(execs) IN
        /\ \A k \in DOMAIN sent :
              /\ k < Len(sent) => sent[k].name = "declare-const"
              /\ sent[k].name \in {"declare-const", "assert"}
              /\ sent[k].name = "assert" => k = Len(sent) /\ sent[k] = AssertCmd(op.term)
        /\ ret.kind = "Ok" =>
              /\ sent # <<>>
              /\ sent[Len(sent)] = AssertCmd(op.term)
              /\ LastOut(execs) = "success"

\* An assert that declared two constants, then asserted, and returned Ok.
C1_Witness ==
    /\ op.name = "assert"
    /\ ret.kind = "Ok"
    /\ Len(Sent(execs)) = 3
    /\ Sent(execs)[1].name = "declare-const"
    /\ Sent(execs)[2].name = "declare-const"

----------------------------------------------------------------------------
(* C2 -- Solver::assert: whenever a call sends (assert term), every sorted  *)
(* simple identifier occurring anywhere in the term that was not in the     *)
(* decl-map before the call has had its declare-const sent earlier in the   *)
(* same call.                                                               *)

C2_EverySortedDeclared ==
    [][ (op'.name = "assert" /\ SentAt(execs', AssertCmd(op'.term)) # {}) =>
          \A q \in AllSorted(op'.term) :
             (q.id.kind = "Simple" /\ q.id \notin DOMAIN decls) =>
                \E k \in DOMAIN Sent(execs') :
                   /\ Sent(execs')[k].name = "declare-const"
                   /\ Sent(execs')[k].sym = q.id.sym
                   /\ \A a \in SentAt(execs', AssertCmd(op'.term)) : k < a ]_vars

----------------------------------------------------------------------------
(* C3 -- In one session a declare-const for a given symbol is sent at most  *)
(* once; it is sent only by an assert whose term contains the sorted        *)
(* identifier and only when the identifier is not yet in the decl-map, so   *)
(* never by a later assert that reuses it.                                  *)

----------------------------------------------------------------------------
(* C4 -- Declaration monotonicity: no step of the session removes a key of  *)
(* the decl-map or changes the sort stored for it, whatever the operation   *)
(* and however it ends.                                                     *)

C4_DeclsMonotonic ==
    [][ \A i \in DOMAIN decls : i \in DOMAIN decls' /\ decls'[i] = decls[i] ]_vars

\* An assert met a declared identifier with another sort and panicked; the
\* stored sort is still the first one.
C4_Witness ==
    /\ op.name = "assert"
    /\ ret = PanicRet("assert_eq")
    /\ \E q \in AllSorted(op.term) : q.id \in DOMAIN decls /\ decls[q.id] # q.sort

----------------------------------------------------------------------------
(* C5 -- Solver::assert on a term that contains a sorted identifier whose   *)
(* sort differs from the one stored for it: the call does not return Ok     *)
(* (it fails, with SortMismatch), (assert term) is not sent, and the stored *)
(* sort is unchanged.                                                       *)

C5_MismatchFails ==
    [][ op'.name = "assert" =>
          \A q \in AllSorted(op'.term) :
             (q.id \in DOMAIN decls /\ decls[q.id] # q.sort) =>
                /\ ret'.kind # "Ok"
                /\ SentAt(execs', AssertCmd(op'.term)) = {}
                /\ q.id \in DOMAIN decls' /\ decls'[q.id] = decls[q.id] ]_vars

----------------------------------------------------------------------------
(* C6 -- For every command a Solver operation (other than new) sends, if    *)
(* the backend answers (error msg), the operation returns                   *)
(* SmtError(msg, text of that command) to its caller.                       *)

C6_ErrorsLifted ==
    \A k \in DOMAIN execs :
       (op.name # "new" /\ execs[k].res.ok /\ execs[k].res.resp.kind = "Error") =>
          ret = SmtError(execs[k].res.resp.msg, execs[k].cmd)

----------------------------------------------------------------------------
(* C7 -- Solver::new / Driver::new: (set-option :print-success true) is the *)
(* first command the backend receives, and construction succeeds only if    *)
(* the response to it is success.                                           *)

C7_NewRequiresSuccess ==
    op.name = "new" =>
        /\ firstCmd = SetOptionPrintSuccess
        /\ ret.kind = "Ok" => LastOut(execs) = "success"

----------------------------------------------------------------------------
(* C8 -- Solver::new / Driver::new: an unsupported answer to the initial    *)
(* set-option still yields a usable driver, and unsupported is the only     *)
(* non-success answer for which construction succeeds.                      *)

C8_OnlyUnsupportedTolerated ==
    op.name = "new" =>
        /\ LastOut(execs) = "unsupported" => ret.kind = "Ok" /\ phase = "ready"
        /\ ret.kind = "Ok" => LastOut(execs) \in {"success", "unsupported"}

----------------------------------------------------------------------------
(* C9 -- Driver::exec: when the backend call yields a response text, the    *)
(* result is SpecificSuccessResponse(r) if the command's own response       *)
(* parser yields Some(r); otherwise it is the GeneralResponse parse of the  *)
(* same text, and a parse failure is returned as an error.                  *)

C9_ExecDispatch ==
    \A k \in DOMAIN execs :
       LET e        == execs[k]
           out      == e.calls[1].out
           specific == parse_response(e.cmd, out)
           general  == GeneralResponseParse(out)
       IN  out # IoFailure =>
              /\ ~specific.ok => e.res = ExecErr("Parse")
              /\ (specific.ok /\ specific.some) =>
                    e.res = ExecOk(SpecificSuccessResponse(specific.r))
              /\ (specific.ok /\ ~specific.some /\ general.ok) =>
                    e.res = ExecOk(general.resp)
              /\ (specific.ok /\ ~specific.some /\ ~general.ok) =>
                    e.res = ExecErr("Parse")

\* check_sat_with_model: check-sat answered sat (its own parser yields Some),
\* then get-model answered sat (its own parser yields None, the general parse
\* yields a specific response).
C9_Witness ==
    /\ op.name = "check_sat_with_model"
    /\ Len(execs) = 2
    /\ execs[1].calls[1].out = "sat"
    /\ execs[2].calls[1].out = "sat"
    /\ execs[2].res = ExecOk(SpecificSuccessResponse(CheckSatResponse("sat")))

----------------------------------------------------------------------------
(* C10 -- Each Driver::exec passes exactly one command to the backend, the  *)
(* command it was given, and what it returns is derived from the one        *)
(* outcome of that call; so the k-th result an operation sees belongs to    *)
(* the k-th command sent, and no command is sent before the previous one    *)
(* was answered.                                                            *)

C10_OneCommandOneResponse ==
    /\ Len(Sent(execs)) = Len(execs)
    /\ \A k \in DOMAIN execs :
          LET e   == execs[k]
              out == e.calls[1].out
          IN
          /\ Len(e.calls) = 1
          /\ e.calls[1].cmd = e.cmd
          /\ Sent(execs)[k] = e.cmd
          /\ e.res = ExecErr("IO") <=> out = IoFailure
          /\ e.res.ok =>
                \/ /\ GeneralResponseParse(out).ok
                   /\ e.res.resp = GeneralResponseParse(out).resp
                \/ /\ parse_response(e.cmd, out).some
                   /\ e.res.resp = SpecificSuccessResponse(parse_response(e.cmd, out).r)

\* An assert that made three execs, the second of which got an error response
\* while the first and third got success.
C10_Witness ==
    /\ op.name = "assert"
    /\ Len(execs) = 3
    /\ execs[1].res = ExecOk(Success)
    /\ execs[2].res = ExecOk(ErrorResp("m1"))
    /\ execs[3].res = ExecOk(Success)

----------------------------------------------------------------------------
(* C11 -- Driver::exec: every exec makes exactly one backend call, and when *)
(* that call fails with an I/O error the exec returns the I/O error (it     *)
(* neither parses anything nor calls the backend again); the operation      *)
(* that made the exec hands the I/O error to its caller and sends nothing   *)
(* more.                                                                    *)

C11_IoFailureNoRetry ==
    \A k \in DOMAIN execs :
       /\ Len(execs[k].calls) = 1
       /\ execs[k].calls[1].out = IoFailure =>
             /\ execs[k].res = ExecErr("IO")
             /\ k = Len(execs)
             /\ ret = [kind |-> "Err", err |-> "IO"]

\* An assert whose declare-const went through and whose assert command hit
\* an I/O error.
C11_Witness ==
    /\ op.name = "assert"
    /\ Len(execs) = 2
    /\ execs[1].res = ExecOk(Success)
    /\ execs[2].calls = <<BackendCall(AssertCmd(op.term), IoFailure)>>
    /\ ret = [kind |-> "Err", err |-> "IO"]

----------------------------------------------------------------------------
(* C12 -- Solver::check_sat_with_model: (check-sat) is the first command    *)
(* it sends; (get-model) is sent if and only if check-sat was answered sat, *)
(* and then as the very next command and the last one; when check-sat is    *)
(* answered unsat or unknown the call returns Unsat or Unknown having sent  *)
(* only (check-sat).                                                        *)

C12_ModelOnlyOnSat ==
    op.name = "check_sat_with_model" =>
        LET sent == Sent(execs)
            out1 == execs[1].calls[1].out
        IN
        /\ Len(sent) \in {1, 2}
        /\ sent[1] = CheckSatCmd
        /\ Len(sent) = 2 <=> out1 = "sat"
        /\ Len(sent) = 2 => sent[2] = GetModelCmd
        /\ out1 = "unsat" => ret = OkRet("Unsat")
        /\ out1 = "unknown" => ret = OkRet("Unknown")

\* check-sat answered sat, get-model answered with a model.
C12_Witness ==
    /\ op.name = "check_sat_with_model"
    /\ Sent(execs) = <<CheckSatCmd, GetModelCmd>>
    /\ execs[1].calls[1].out = "sat"
    /\ ret = OkRet("Sat(Model)")

----------------------------------------------------------------------------
(* C13 -- When (assert term), (check-sat) or (get-model) is answered with a *)
(* response that parses but is not one the command expects, the operation   *)
(* that sent it returns an error value to its caller; it does not abort     *)
(* (panic).                                                                 *)

\* The responses a command expects: its acknowledgement or its own specific
\* response.  An (error msg) response is the solver's error report, not a
\* protocol violation.
Conforms(cmd, resp) ==
    \/ resp.kind = "Error"
    \/ /\ cmd.name = "check-sat"
       /\ resp.kind = "SpecificSuccessResponse" /\ resp.r.variant = "CheckSatResponse"
    \/ /\ cmd.name = "get-model"
       /\ resp.kind = "SpecificSuccessResponse" /\ resp.r.variant = "GetModelResponse"
    \/ /\ cmd.name \notin {"check-sat", "get-model"}
       /\ resp.kind = "Success"

----------------------------------------------------------------------------
(* C14 -- Solver::set_logic sends exactly one command, (set-logic <name>);  *)
(* it returns Ok only if the answer is success, and never on unsupported;   *)
(* and it can be called in every state of a live session, whatever has      *)
(* been declared.                                                           *)

C14_SetLogic ==
    /\ op.name = "set_logic" =>
          /\ Sent(execs) = <<SetLogicCmd(op.logic)>>
          /\ ret.kind = "Ok" => LastOut(execs) = "success"
          /\ LastOut(execs) = "unsupported" => ret.kind # "Ok"
    /\ Idle => ENABLED SolverSetLogic

\* set_logic returned Ok in a session that has already declared a constant.
C14_Witness ==
    /\ op.name = "set_logic"
    /\ ret.kind = "Ok"
    /\ DOMAIN decls # {}
    /\ \E s \in Syms : declSent[s] = 1

----------------------------------------------------------------------------
(* C15 -- Solver::assert on a term whose sorted identifiers are all         *)
(* Indexed (and which has no binder or annotation in it): no declare-const  *)
(* is sent, (assert term) is the one command sent, and the call returns     *)
(* according to the answer to it: Ok when the answer is success.            *)

\* A term made of constants, identifiers and applications only.
RECURSIVE PlainTerm(_)
PlainTerm(t) ==
    \/ t.tag \in {"SpecConstant", "Identifier"}
    \/ /\ t.tag = "Application"
       /\ \A k \in DOMAIN t.args : PlainTerm(t.args[k])

C15_IndexedNotDeclared ==
    ( /\ op.name = "assert"
      /\ PlainTerm(op.term)
      /\ AllSorted(op.term) # {}
      /\ \A q \in AllSorted(op.term) : q.id.kind = "Indexed" ) =>
        /\ Sent(execs) = <<AssertCmd(op.term)>>
        /\ LastOut(execs) = "success" => ret.kind = "Ok"

----------------------------------------------------------------------------
(* C16 -- T::from_name(name): the constant's term is the identifier         *)
(* (as |name| T::sort()), the name quoted whatever it is, and Const::name() *)
(* is the quoted symbol.  Asserting that term when the symbol is not yet    *)
(* declared sends (declare-const |name| Sort) first and stores the sort     *)
(* under that symbol; asserting it again, from another from_name call with  *)
(* the same name and sort, finds the same decl-map key and declares         *)
(* nothing.                                                                 *)

C16_FromNameQuoted ==
    [][ \A n \in Names, s \in Sorts :
          LET c      == from_name(n, s)
              quoted == "|" \o n \o "|"
          IN  (op'.name = "assert" /\ op'.term = c.term) =>
                 /\ c.name = quoted
                 /\ RenderTerm(c.term) = <<"(", "as", quoted>> \o RenderSort(s) \o <<")">>
                 /\ Simple(quoted) \notin DOMAIN decls =>
                       /\ RenderCmd(Sent(execs')[1])
                            = <<"(", "declare-const", quoted>> \o RenderSort(s) \o <<")">>
                       /\ Simple(quoted) \in DOMAIN decls'
                       /\ decls'[Simple(quoted)] = s
                 /\ (Simple(quoted) \in DOMAIN decls /\ decls[Simple(quoted)] = s) =>
                       \A k \in DOMAIN Sent(execs') : Sent(execs')[k].name # "declare-const"
      ]_vars

\* The second assert of a constant made by from_name("a"): nothing declared,
\* the key made by the first assert is found.
C16_Witness ==
    /\ op.name = "assert"
    /\ op.term = from_name("a", FieldSort).term
    /\ Sent(execs) = <<AssertCmd(op.term)>>
    /\ decls[Simple("|a|")] = FieldSort
    /\ ret.kind = "Ok"

----------------------------------------------------------------------------
(* C17 -- Label::generate from any number of threads, in any interleaving:  *)
(* no two calls obtain the same counter value, so no two labels have the    *)
(* same name; and the counter values one thread obtains are strictly        *)
(* increasing in the order of its calls.                                    *)

C17_LabelsUnique ==
    LET made == {<<t, k>> \in Threads \X (1..MaxLabels) : k <= Len(labelThreads[t].labels)}
        lab(x) == labelThreads[x[1]].labels[x[2]]
    IN
    /\ \A x, y \in made :
          x # y => lab(x).n # lab(y).n /\ lab(x).name # lab(y).name
    /\ \A x, y \in made :
          (x[1] = y[1] /\ x[2] < y[2]) => lab(x).n < lab(y).n
    /\ \A t \in Threads :
          labelThreads[t].pc = "generated" =>
             /\ \A x \in made : lab(x).n # labelThreads[t].n
             /\ \A u \in Threads \ {t} :
                   labelThreads[u].pc = "generated" => labelThreads[u].n # labelThreads[t].n

\* Two threads have made their labels interleaved: t1 got 0 and 2, t2 got 1.
C17_Witness ==
    /\ Len(labelThreads["t1"].labels) = 2
    /\ labelThreads["t1"].labels[1].n = 0
    /\ labelThreads["t1"].labels[2].n = 2
    /\ Len(labelThreads["t2"].labels) >= 1
    /\ labelThreads["t2"].labels[1].name = "named-label-1"

----------------------------------------------------------------------------
(* C18 *)

\* The applications in a term the typed layer built.
RECURSIVE Applications(_)
Applications(t) ==
    CASE t.tag = "Application" ->
            {t} \cup UNION {Applications(t.args[k]) : k \in DOMAIN t.args}
      [] t.tag \in {"Forall", "Exists"} -> Applications(t.body)
      [] OTHER -> {}

\* C18: every Application the typed layer builds (by fun, by the operators,
\* by and / or / xor / equal / distinct over an array of N terms, N = 0
\* included) has at least one argument.
C18_ApplicationHasArgument ==
    built # NoTerm => \A a \in Applications(built.term) : Len(a.args) >= 1

----------------------------------------------------------------------------
(* C19 *)

\* A term the typed layer can have built: identifiers made by qual_ident,
\* applications made by fun, quantifiers made by forall / exists.
RECURSIVE TypedBuilt(_)
TypedBuilt(t) ==
    CASE t.tag = "Identifier"  -> t.q.id.kind = "Simple"
      [] t.tag = "Application" ->
            /\ t.q.kind = "Identifier"
            /\ t.q.id.kind = "Simple"
            /\ \A k \in DOMAIN t.args : TypedBuilt(t.args[k])
      [] t.tag \in {"Forall", "Exists"} -> TypedBuilt(t.body)
      [] OTHER -> FALSE

\* C19: every AST node the high-level layer builds renders to text that
\* reparses to an equal node: every command a Solver operation built and
\* sent (the DefineSort of set_field_order, the DeclareConst and Assert of
\* an assert whose term the typed layer built, FieldElement::from and
\* Sort::from_name identifiers included) is what the parser makes of its
\* own rendering.
C19_RenderReparses ==
    (op.name = "assert" => TypedBuilt(op.term)) =>
        \A k \in DOMAIN Sent(execs) :
            ReparseCommand(Sent(execs)[k]) = Parsed(Sent(execs)[k], <<>>)

----------------------------------------------------------------------------
(* C20 *)

\* C20: AsyncDriver::new and AsyncDriver::exec send the backend the commands
\* Driver::new and Driver::exec send, in the same order, and return the same
\* responses and errors, for every sequence of commands and every behaviour
\* of the backend; the AsyncDriver differs only in being suspended while the
\* backend has its command.
C20_AsyncSameAsSync ==
    LET n == Len(asyncDriver.log) IN
    /\ n <= Len(driver.log)
    /\ \A k \in 1..n : asyncDriver.log[k] = driver.log[k]
    /\ asyncDriver.st = "awaiting" =>
          /\ n < Len(driver.log)
          /\ asyncDriver.fut.cmd = driver.log[n + 1].calls[1].cmd
          /\ Len(driver.log[n + 1].calls) = 1
    /\ (asyncDriver.st \in {"ready", "failed"} /\ n = Len(driver.log)) =>
          asyncDriver.st = driver.st
    /\ asyncDriver.st = "failed" => n = 1

\* Both drivers were constructed and ran two execs: a set-logic answered
\* success and a check-sat whose response could not be parsed.
C20_Witness ==
    /\ Len(asyncDriver.log) = 3
    /\ asyncDriver.st = "ready"
    /\ asyncDriver.log[2].cmd = SetLogicCmd("QF_FF")
    /\ asyncDriver.log[2].res = ExecOk(Success)
    /\ asyncDriver.log[3].cmd = CheckSatCmd
    /\ asyncDriver.log[3].res = ExecErr("Parse")
    /\ driver.log = asyncDriver.log

----------------------------------------------------------------------------
(* C21 *)

\* u has the shape of t: the same variants at the same places, the same
\* identifiers (sorted or bare), literals, binders and attributes.
RECURSIVE SameShape(_, _)
SameShape(t, u) ==
    /\ t.tag = u.tag
    /\ CASE t.tag = "SpecConstant" -> t = u
         [] t.tag = "Identifier"   -> t.q.id = u.q.id
         [] t.tag = "Application"  ->
               /\ t.q.id = u.q.id
               /\ Len(t.args) = Len(u.args)
               /\ \A k \in DOMAIN t.args : SameShape(t.args[k], u.args[k])
         [] t.tag \in {"Forall", "Exists"} ->
               t.svars = u.svars /\ SameShape(t.body, u.body)
         [] t.tag = "Let" ->
               /\ Len(t.bindings) = Len(u.bindings)
               /\ \A k \in DOMAIN t.bindings :
                     /\ t.bindings[k].sym = u.bindings[k].sym
                     /\ SameShape(t.bindings[k].term, u.bindings[k].term)
               /\ SameShape(t.body, u.body)
         [] t.tag = "Match" ->
               /\ SameShape(t.term, u.term)
               /\ Len(t.cases) = Len(u.cases)
               /\ \A k \in DOMAIN t.cases :
                     /\ t.cases[k].pat = u.cases[k].pat
                     /\ SameShape(t.cases[k].term, u.cases[k].term)
         [] t.tag = "Annotation" ->
               t.attrs = u.attrs /\ SameShape(t.term, u.term)

\* No QualIdentifier::Sorted anywhere in t.
RECURSIVE NoSorted(_)
NoSorted(t) ==
    CASE t.tag = "SpecConstant" -> TRUE
      [] t.tag = "Identifier"   -> t.q.kind # "Sorted"
      [] t.tag = "Application"  ->
            t.q.kind # "Sorted" /\ \A k \in DOMAIN t.args : NoSorted(t.args[k])
      [] t.tag \in {"Forall", "Exists"} -> NoSorted(t.body)
      [] t.tag = "Let" ->
            NoSorted(t.body) /\ \A k \in DOMAIN t.bindings : NoSorted(t.bindings[k].term)
      [] t.tag = "Match" ->
            NoSorted(t.term) /\ \A k \in DOMAIN t.cases : NoSorted(t.cases[k].term)
      [] t.tag = "Annotation" -> NoSorted(t.term)

\* C21: for every term t, strip_sort(t) returns a term of the shape of t
\* that holds no sorted identifier anywhere (heads of applications, leaves,
\* bodies under binders), and stripping that term again returns it
\* unchanged.
C21_StripSortStrips ==
    call.fn = "strip_sort" =>
        /\ ~call.res.panic
        /\ SameShape(call.arg, call.res.term)
        /\ NoSorted(call.res.term)
        /\ strip_sort(call.res.term) = call.res

----------------------------------------------------------------------------
(* C22 *)

\* C22: for every lexeme ff<digits>, Fieldelement::parse returns Ok(n), n
\* the number its digit string stands for, and does not panic.
C22_FieldelementParses ==
    call.fn = "Fieldelement::parse" =>
        call.res = OkRet(DecimalValue(SubSeq(call.arg, 3, Len(call.arg))))

----------------------------------------------------------------------------
(* C23 *)

\* The text is (as ff<N> F), <N> one or more decimal digits.
ConformantLiteral(text) ==
    /\ Len(text) >= 10
    /\ SubSeq(text, 1, 6) = <<"(", "a", "s", " ", "f", "f">>
    /\ SubSeq(text, Len(text) - 2, Len(text)) = <<" ", "F", ")">>
    /\ \A k \in 7..(Len(text) - 3) : IsDigit(text[k])

\* C23: for every i64 and every BigUint, the literal FieldElement::from
\* makes renders as (as ff<N> F) with <N> a non-empty string of decimal
\* digits.
C23_LiteralConformant ==
    call.fn \in {"FieldElement::from(i64)", "FieldElement::from(BigUint)"} =>
        ConformantLiteral(FieldElementDisplay(call.res))

----------------------------------------------------------------------------
(* C24 *)

\* C24: for every BigUint n, FieldElement::from(n).to_biguint() = n.
C24_BigUintRoundTrip ==
    (call.fn = "FieldElement::to_biguint" /\ call.made = "FieldElement::from(BigUint)") =>
        call.res = OkRet(call.of)

\* The literal made from the BigUint 10, (as ff10 F), was converted back to 10.
C24_Witness ==
    /\ call.fn = "FieldElement::to_biguint"
    /\ call.made = "FieldElement::from(BigUint)"
    /\ call.of = 10
    /\ FieldElementDisplay(call.arg) = <<"(", "a", "s", " ", "f", "f", "1", "0", " ", "F", ")">>
    /\ call.res = OkRet(10)

----------------------------------------------------------------------------
(* C25 *)

\* Among the execs ex, a declare-const of identifier i with sort s reached the
\* backend and was answered `success`.
DeclaredWithSuccess(ex, i, s) ==
    /\ i.kind = "Simple"
    /\ \E k \in DOMAIN ex :
          /\ ex[k].cmd = DeclareConst(i.sym, s)
          /\ \E j \in DOMAIN ex[k].calls : ex[k].calls[j].out # IoFailure
          /\ ex[k].res = ExecOk(Success)

\* C25: an identifier becomes a key of the decl-map only in an operation that
\* delivered its declare-const to the backend and had it acknowledged with
\* success; a declare-const that fails leaves the identifier unrecorded.
C25_DeclsOnlyAcknowledged ==
    [][\A i \in DOMAIN decls' \ DOMAIN decls :
          DeclaredWithSuccess(execs', i, decls'[i])]_vars

----------------------------------------------------------------------------
(* C26 *)

\* The outcomes the backend gave to a sequence of execs, in order.
Heard(ex) == Concat([k \in DOMAIN ex |-> [j \in DOMAIN ex[k].calls |-> ex[k].calls[j].out]])

\* C26: the commands sent are a function of the operations and the
\* responses: whenever an assert runs, every other way the same assert of
\* the same term could have run from the same Solver, hearing the same
\* responses from the backend, sends the same commands in the same order.
C26_CommandsDeterministic ==
    [][(Idle /\ op'.name = "assert") =>
          \A r \in AssertRuns(decls, declSent, op'.term) :
              Heard(r.execs) = Heard(execs') => Sent(r.execs) = Sent(execs')]_vars

====
